---- MODULE Spec2Model ----
(***************************************************************************)
(* A model of two subsystems of coremltools:                               *)
(*   - the noop_elimination graph pass                                     *)
(*       (converters/mil/mil/passes/noop_elimination.py), and              *)
(*   - the torch op registry                                               *)
(*       (converters/mil/frontend/torch/torch_op_registry.py).             *)
(*                                                                         *)
(* The pass is modelled as a state machine over a MIL program: the        *)
(* recursion of _noop_elimination_block is an explicit call stack, every  *)
(* iteration of its for/while loops is one step.  Spec is the pass run    *)
(* twice in succession on a program drawn from a bounded family.          *)
(***************************************************************************)
EXTENDS Integers, Sequences, FiniteSets, TLC

VARIABLES
    ops,            \* op id -> the Operation object (its inputs are mutable)
    blocks,         \* block id -> [operations, outputs] of a Block
    functions,      \* prog.functions.values(): the top-level block of each function
    ops_to_skip,    \* noop_elimination.ops_to_skip
    pc,             \* where apply is: "idle", "while" (its loop head), "scan"
    fi,             \* index into functions of apply's for loop
    block_changed,  \* apply's local block_changed
    stack,          \* activation records of _noop_elimination_block, innermost last
    run,            \* how many times apply has been called
    rewrites,       \* run -> number of successful rewrites during that call of apply
    prog0,          \* the program as it was handed to the first apply
    last,           \* what the most recent step of the scan did (for the claims)
    name_to_func_mapping,  \* TorchOpsRegistry.name_to_func_mapping
    calls,          \* number of register calls made so far
    outcome,        \* the most recent registry call and how it ended
    threads         \* caller -> how far its register_func call has got

passVars == <<ops, blocks, functions, ops_to_skip, pc, fi, block_changed, stack,
              run, rewrites, prog0, last>>
regVars == <<name_to_func_mapping, calls, outcome, threads>>
vars == <<ops, blocks, functions, ops_to_skip, pc, fi, block_changed, stack,
          run, rewrites, prog0, last, name_to_func_mapping, calls, outcome,
          threads>>

(***************************************************************************)
(* Bounds of the model.                                                    *)
(***************************************************************************)
\* number of non-constant operations of a generated program
MaxOps == 3

(***************************************************************************)
(* Values of the model.  A Var is [op, idx]: output number idx of          *)
(* operation op; op = 0 is "no defining operation" (Var.op is None): the   *)
(* Var is then input number idx of its function.  An optional value is a   *)
(* sequence of length 0 (None) or 1.                                       *)
(***************************************************************************)
None == <<>>

Some(v) == <<v>>

Var(o, k) == [op |-> o, idx |-> k]

\* The two symbolic types (shape + dtype) the model distinguishes.
SymTypes == {"fp32(4,1)", "fp32(4,4)"}

InputType == "fp32(4,1)"

\* Var.sym_type
sym_type(O, v) == IF v.op = 0 THEN InputType ELSE O[v.op].out_types[v.idx]

\* Var.val: None unless the Var is the output of a const
val(O, v) == IF v.op = 0 \/ v.idx # 1 THEN None ELSE O[v.op].val

\* Operation.outputs
outputs(O, o) == [k \in 1..Len(O[o].out_types) |-> Var(o, k)]

\* v in list
InList(v, list) == \E k \in 1..Len(list) : list[k] = v

\* np.all(arr == x), arr a flattened array
np_all_eq(arr, x) == \A k \in 1..Len(arr) : arr[k] = x

(***************************************************************************)
(* Graph Model: program order, replace_uses_of_var_after_op, remove_ops.   *)
(* Their code is not part of the files modelled here; they follow the      *)
(* contract the specification gives for them.                              *)
(***************************************************************************)
RECURSIVE FlattenOps(_, _, _), FlattenBlocks(_, _, _)

\* the operations of a list, each followed by the operations nested in it
FlattenOps(O, B, list) ==
    IF list = <<>> THEN <<>>
    ELSE <<Head(list)>> \o FlattenBlocks(O, B, O[Head(list)].blocks)
                        \o FlattenOps(O, B, Tail(list))

FlattenBlocks(O, B, bs) ==
    IF bs = <<>> THEN <<>>
    ELSE FlattenOps(O, B, B[Head(bs)].operations) \o FlattenBlocks(O, B, Tail(bs))

\* every operation of the program, in program order
ProgramOrder(O, B, F) == FlattenBlocks(O, B, F)

\* 1-based position of an operation in a list, 0 when it is not there
IndexOf(list, o) ==
    IF InList(o, list) THEN CHOOSE k \in 1..Len(list) : list[k] = o ELSE 0

\* an operation's inputs with every occurrence of old_var replaced by new_var
set_inputs(inputs, old_var, new_var) ==
    [k \in DOMAIN inputs |-> IF inputs[k] = old_var THEN new_var ELSE inputs[k]]

\* Every use of old_var occurring at or after anchor_op in program order is
\* replaced by new_var; anchor_op = 0 (None: new_var is a function input)
\* precedes every operation.  Declared block outputs are not uses.
replace_uses_of_var_after_op(O, B, F, anchor_op, old_var, new_var) ==
    LET order == ProgramOrder(O, B, F)
        start == IF anchor_op = 0 THEN 1 ELSE IndexOf(order, anchor_op)
        after == IF start = 0 THEN {}
                 ELSE {order[k] : k \in start..Len(order)}
    IN  [o \in DOMAIN O |->
            IF o \in after
            THEN [O[o] EXCEPT !.inputs = set_inputs(@, old_var, new_var)]
            ELSE O[o]]

\* the operations of a list that are not in the set gone
RECURSIVE Without(_, _)
Without(list, gone) ==
    IF list = <<>> THEN <<>>
    ELSE IF Head(list) \in gone THEN Without(Tail(list), gone)
         ELSE <<Head(list)>> \o Without(Tail(list), gone)

\* block.remove_ops(ops): the operations are deleted from the block
remove_ops(B, block, gone) ==
    [B EXCEPT ![block].operations = Without(@, gone)]

(***************************************************************************)
(* noop_elimination.py: the removal strategies.  Each returns the status   *)
(* the Python function returns together with the graph it leaves and the   *)
(* operand it kept (input_var).                                            *)
(***************************************************************************)
Declined == [status |-> FALSE, ops |-> ops, blocks |-> blocks, input_var |-> Var(0, 0)]

\* Faulty variants of the rewrite tail: the op is deleted while its uses
\* are left alone; the uses are rewired while the op is left in its block.
Rewire_without_replace(op, block, input_var) ==
    [status |-> TRUE,
     ops    |-> ops,
     blocks |-> remove_ops(blocks, block, {op}),
     input_var |-> input_var]

Rewire_without_remove(op, block, input_var) ==
    [status |-> TRUE,
     ops    |-> replace_uses_of_var_after_op(ops, blocks, functions, input_var.op,
                                             outputs(ops, op)[1], input_var),
     blocks |-> blocks,
     input_var |-> input_var]

\* the common tail of the four strategies: rewire the uses, delete the op
Rewire(op, block, input_var) ==
    LET input_op == input_var.op
    IN  [status |-> TRUE,
         ops    |-> replace_uses_of_var_after_op(ops, blocks, functions, input_op,
                                                 outputs(ops, op)[1], input_var),
         blocks |-> remove_ops(blocks, block, {op}),
         input_var |-> input_var]

\* Faulty variants of _remove_elementwise_binary: the matching operand is
\* kept instead of the other one; the comparison of the types is left out.
_remove_elementwise_binary_swapped(op, block, x, y) ==
    LET opx == ops[op].inputs.x
        opy == ops[op].inputs.y
        xmatch == x # None /\ val(ops, opx) # None /\ np_all_eq(val(ops, opx)[1], x[1])
        ymatch == y # None /\ val(ops, opy) # None /\ np_all_eq(val(ops, opy)[1], y[1])
        input_var == IF xmatch THEN opx ELSE opy
        input_op == input_var.op
    IN  IF ~xmatch /\ ~ymatch THEN Declined
        ELSE IF sym_type(ops, input_var) # sym_type(ops, outputs(ops, op)[1])
             THEN Declined
             ELSE [status |-> TRUE,
                   ops    |-> replace_uses_of_var_after_op(ops, blocks, functions, input_op,
                                                           outputs(ops, op)[1], input_var),
                   blocks |-> remove_ops(blocks, block, {op}),
                   input_var |-> input_var]

_remove_elementwise_binary_unchecked(op, block, x, y) ==
    LET opx == ops[op].inputs.x
        opy == ops[op].inputs.y
        xmatch == x # None /\ val(ops, opx) # None /\ np_all_eq(val(ops, opx)[1], x[1])
        ymatch == y # None /\ val(ops, opy) # None /\ np_all_eq(val(ops, opy)[1], y[1])
        input_var == IF xmatch THEN opy ELSE opx
        input_op == input_var.op
    IN  IF ~xmatch /\ ~ymatch THEN Declined
        ELSE [status |-> TRUE,
              ops    |-> replace_uses_of_var_after_op(ops, blocks, functions, input_op,
                                                      outputs(ops, op)[1], input_var),
              blocks |-> remove_ops(blocks, block, {op}),
              input_var |-> input_var]

_remove_elementwise_binary(op, block, x, y) ==
    LET opx == ops[op].inputs.x
        opy == ops[op].inputs.y
        xmatch == x # None /\ val(ops, opx) # None /\ np_all_eq(val(ops, opx)[1], x[1])
        ymatch == y # None /\ val(ops, opy) # None /\ np_all_eq(val(ops, opy)[1], y[1])
        input_var == IF xmatch THEN opy ELSE opx
    IN  IF ~xmatch /\ ~ymatch THEN Declined
        ELSE IF sym_type(ops, input_var) # sym_type(ops, outputs(ops, op)[1])
             THEN Declined
             ELSE Rewire(op, block, input_var)

\* Faulty variant of remove_elementwise: add and mul look at the right
\* operand only.
remove_elementwise_right_only(op, block) ==
    IF ops[op].op_type \in {"add"}
    THEN _remove_elementwise_binary(op, block, None, Some(0))
    ELSE IF ops[op].op_type \in {"mul"}
    THEN _remove_elementwise_binary(op, block, None, Some(1))
    ELSE IF ops[op].op_type \in {"floor_div", "pow", "real_div"}
    THEN _remove_elementwise_binary(op, block, None, Some(1))
    ELSE IF ops[op].op_type \in {"sub"}
    THEN _remove_elementwise_binary(op, block, None, Some(0))
    ELSE Declined

remove_elementwise(op, block) ==
    IF ops[op].op_type \in {"add"}
    THEN _remove_elementwise_binary(op, block, Some(0), Some(0))
    ELSE IF ops[op].op_type \in {"mul"}
    THEN _remove_elementwise_binary(op, block, Some(1), Some(1))
    ELSE IF ops[op].op_type \in {"floor_div", "pow", "real_div"}
    THEN _remove_elementwise_binary(op, block, None, Some(1))
    ELSE IF ops[op].op_type \in {"sub"}
    THEN _remove_elementwise_binary(op, block, None, Some(0))
    ELSE Declined

remove_same_shape(op, block) ==
    IF sym_type(ops, ops[op].inputs.x) # sym_type(ops, outputs(ops, op)[1])
    THEN Declined
    ELSE Rewire(op, block, ops[op].inputs.x)

remove_linear(op, block) ==
    IF ops[op].alpha # 1 \/ ops[op].beta # 0
    THEN Declined
    ELSE Rewire(op, block, ops[op].inputs.x)

\* Faulty variant of the normalisation: negative axes are left as they are.
normalized_perm_raw(p) == p

\* [p if p >= 0 else p+len(op.perm.val) for p in op.perm.val]
normalized_perm(p) == [k \in 1..Len(p) |-> IF p[k] >= 0 THEN p[k] ELSE p[k] + Len(p)]

\* (perm != np.sort(perm)).any() is false exactly when perm is ascending
is_sorted(p) == \A k \in 1..(Len(p) - 1) : p[k] <= p[k + 1]

remove_transpose(op, block) ==
    IF ~is_sorted(normalized_perm(ops[op].perm))
    THEN Declined
    ELSE Rewire(op, block, ops[op].inputs.x)

_SUPPORTED_OPS ==
    {"add", "mul", "floor_div", "pow", "real_div", "sub", "reshape", "split",
     "slice_by_index", "slice_by_size", "pad", "tile", "transpose",
     "upsample_nearest_neighbor", "upsample_bilinear", "resize_bilinear", "crop",
     "linear_activation"}

op_to_removal_fn(t) ==
    CASE t \in {"add", "mul", "floor_div", "pow", "real_div", "sub"} -> "remove_elementwise"
      [] t \in {"reshape", "split", "slice_by_index", "slice_by_size", "pad", "tile",
                "upsample_nearest_neighbor", "upsample_bilinear", "resize_bilinear",
                "crop"} -> "remove_same_shape"
      [] t = "transpose" -> "remove_transpose"
      [] t = "linear_activation" -> "remove_linear"

\* Faulty variant of _match_pattern: the block outputs are not looked at.
_match_pattern_any_output(op) ==
    IF ops[op].op_type \in _SUPPORTED_OPS
    THEN IF Len(outputs(ops, op)) # 1 THEN "None"
         ELSE op_to_removal_fn(ops[op].op_type)
    ELSE "None"

\* the removal function, or "None"
_match_pattern(op) ==
    IF InList(outputs(ops, op)[1], blocks[ops[op].enclosing_block].outputs)
    THEN "None"
    ELSE IF ops[op].op_type \in _SUPPORTED_OPS
         THEN IF Len(outputs(ops, op)) # 1 THEN "None"
              ELSE op_to_removal_fn(ops[op].op_type)
         ELSE "None"

\* status = remove_fn(op, block)
call_remove_fn(remove_fn, op, block) ==
    CASE remove_fn = "remove_elementwise" -> remove_elementwise(op, block)
      [] remove_fn = "remove_same_shape" -> remove_same_shape(op, block)
      [] remove_fn = "remove_transpose" -> remove_transpose(op, block)
      [] remove_fn = "remove_linear" -> remove_linear(op, block)

\* noop_elimination.set_ops_to_skip: the hook is empty, the set stays as
\* __init__ made it
set_ops_to_skip == ops_to_skip

(***************************************************************************)
(* noop_elimination.apply and _noop_elimination_block.  An activation      *)
(* record of _noop_elimination_block is                                    *)
(*   [block, snap, i, bi, changed]:                                        *)
(* snap is list(block.operations), i the index of the loop variable op,    *)
(* bi the index of b in op.blocks (0 outside that loop), changed the       *)
(* local block_changed of the nested while loop; before is the number of   *)
(* rewrites made when the activation began.                                *)
(***************************************************************************)
Frame(b) == [block |-> b, snap |-> blocks[b].operations, i |-> 1, bi |-> 0,
             changed |-> FALSE, before |-> rewrites[run]]

Top == stack[Len(stack)]

CurOp == Top.snap[Top.i]

\* the operations of the program that consume the value v
Users(v) ==
    LET order == ProgramOrder(ops, blocks, functions)
    IN  {c \in {order[k] : k \in 1..Len(order)} :
            \E k \in DOMAIN ops[c].inputs : ops[c].inputs[k] = v}

Step(kind, op, input_var, users) ==
    [kind |-> kind, op |-> op, input_var |-> input_var, users |-> users]

NoStep == Step("none", 0, Var(0, 0), {})

\* Faulty variant of the return: the caller is told that nothing changed.
Return_unchanged(status) ==
    LET rest == SubSeq(stack, 1, Len(stack) - 1)
    IN  IF rest = <<>>
        THEN /\ stack' = <<>>
             /\ block_changed' = FALSE
             /\ pc' = "while"
        ELSE /\ stack' = [rest EXCEPT ![Len(rest)].changed = FALSE]
             /\ UNCHANGED <<block_changed, pc>>

\* the callee returns status to the loop that called it
Return(status) ==
    LET rest == SubSeq(stack, 1, Len(stack) - 1)
    IN  IF rest = <<>>
        THEN /\ stack' = <<>>
             /\ block_changed' = status
             /\ pc' = "while"
        ELSE /\ stack' = [rest EXCEPT ![Len(rest)].changed = status]
             /\ UNCHANGED <<block_changed, pc>>

\* the loop body moves to the next op of the snapshot
Advance == stack' = [stack EXCEPT ![Len(stack)].i = @ + 1,
                                  ![Len(stack)].bi = 0,
                                  ![Len(stack)].changed = FALSE]

\* apply is called: set_ops_to_skip, the first function, block_changed = True
apply_enter ==
    /\ pc = "idle"
    /\ run < 2
    /\ run' = run + 1
    /\ ops_to_skip' = set_ops_to_skip
    /\ fi' = 1
    /\ block_changed' = TRUE
    /\ pc' = "while"
    /\ last' = NoStep
    /\ UNCHANGED <<regVars, ops, blocks, functions, stack, rewrites, prog0>>

\* while block_changed: block_changed = self._noop_elimination_block(f)
apply_call ==
    /\ pc = "while"
    /\ block_changed
    /\ stack' = <<Frame(functions[fi])>>
    /\ pc' = "scan"
    /\ last' = NoStep
    /\ UNCHANGED <<regVars, ops, blocks, functions, ops_to_skip, fi, block_changed, run,
                   rewrites, prog0>>

\* the while loop of one function ends, the for loop takes the next function
apply_next_function ==
    /\ pc = "while"
    /\ ~block_changed
    /\ fi < Len(functions)
    /\ fi' = fi + 1
    /\ block_changed' = TRUE
    /\ last' = NoStep
    /\ UNCHANGED <<regVars, ops, blocks, functions, ops_to_skip, pc, stack, run, rewrites,
                   prog0>>

\* the for loop is exhausted: apply returns
apply_return ==
    /\ pc = "while"
    /\ ~block_changed
    /\ fi = Len(functions)
    /\ pc' = "idle"
    /\ last' = NoStep
    /\ UNCHANGED <<regVars, ops, blocks, functions, ops_to_skip, fi, block_changed, stack,
                   run, rewrites, prog0>>

Scanning == pc = "scan" /\ Top.bi = 0 /\ Top.i <= Len(Top.snap)

\* Faulty variant of the scan: an op with nested blocks is passed over
\* without a scan of its blocks.
scan_skip_blocks ==
    /\ pc = "scan" /\ Top.bi = 0 /\ Top.i <= Len(Top.snap)
    /\ Len(ops[CurOp].blocks) > 0
    /\ stack' = [stack EXCEPT ![Len(stack)].i = @ + 1]
    /\ last' = NoStep
    /\ UNCHANGED <<regVars, ops, blocks, functions, ops_to_skip, pc, fi, block_changed, run,
                   rewrites, prog0>>

\* for b in op.blocks: first block, block_changed = True
scan_enter_blocks ==
    /\ Scanning
    /\ Len(ops[CurOp].blocks) > 0
    /\ stack' = [stack EXCEPT ![Len(stack)].bi = 1, ![Len(stack)].changed = TRUE]
    /\ last' = NoStep
    /\ UNCHANGED <<regVars, ops, blocks, functions, ops_to_skip, pc, fi, block_changed, run,
                   rewrites, prog0>>

\* while block_changed: block_changed = self._noop_elimination_block(b)
nested_call ==
    /\ pc = "scan"
    /\ Top.bi >= 1
    /\ Top.changed
    /\ stack' = Append(stack, Frame(ops[CurOp].blocks[Top.bi]))
    /\ last' = NoStep
    /\ UNCHANGED <<regVars, ops, blocks, functions, ops_to_skip, pc, fi, block_changed, run,
                   rewrites, prog0>>

\* the nested while loop ends, the for loop takes the next nested block
nested_next_block ==
    /\ pc = "scan"
    /\ Top.bi >= 1
    /\ ~Top.changed
    /\ Top.bi < Len(ops[CurOp].blocks)
    /\ stack' = [stack EXCEPT ![Len(stack)].bi = @ + 1, ![Len(stack)].changed = TRUE]
    /\ last' = NoStep
    /\ UNCHANGED <<regVars, ops, blocks, functions, ops_to_skip, pc, fi, block_changed, run,
                   rewrites, prog0>>

\* if len(op.blocks) > 0: continue
nested_continue ==
    /\ pc = "scan"
    /\ Top.bi >= 1
    /\ ~Top.changed
    /\ Top.bi = Len(ops[CurOp].blocks)
    /\ Advance
    /\ last' = NoStep
    /\ UNCHANGED <<regVars, ops, blocks, functions, ops_to_skip, pc, fi, block_changed, run,
                   rewrites, prog0>>

\* remove_fn is not None and op not in self.ops_to_skip
Selected(op) == _match_pattern(op) # "None" /\ op \notin ops_to_skip

\* the matcher rejects the op, or the op is exempt: next op
scan_no_match ==
    /\ Scanning
    /\ Len(ops[CurOp].blocks) = 0
    /\ ~Selected(CurOp)
    /\ Advance
    /\ last' = Step("rejected", CurOp, Var(0, 0), {})
    /\ UNCHANGED <<regVars, ops, blocks, functions, ops_to_skip, pc, fi, block_changed, run,
                   rewrites, prog0>>

\* Faulty variant of the declined step: the scan of the block ends there.
scan_declined_stop ==
    /\ pc = "scan" /\ Top.bi = 0 /\ Top.i <= Len(Top.snap)
    /\ Len(ops[CurOp].blocks) = 0
    /\ Selected(CurOp)
    /\ LET r == call_remove_fn(_match_pattern(CurOp), CurOp, Top.block)
       IN  /\ ~r.status
           /\ ops' = r.ops
           /\ blocks' = r.blocks
    /\ Return(FALSE)
    /\ last' = Step("declined", CurOp, Var(0, 0), {})
    /\ UNCHANGED <<regVars, functions, ops_to_skip, fi, run, rewrites, prog0>>

\* status = remove_fn(op, block) is false: next op
scan_declined ==
    /\ Scanning
    /\ Len(ops[CurOp].blocks) = 0
    /\ Selected(CurOp)
    /\ LET r == call_remove_fn(_match_pattern(CurOp), CurOp, Top.block)
       IN  /\ ~r.status
           /\ ops' = r.ops
           /\ blocks' = r.blocks
    /\ Advance
    /\ last' = Step("declined", CurOp, Var(0, 0), {})
    /\ UNCHANGED <<regVars, functions, ops_to_skip, pc, fi, block_changed, run, rewrites, prog0>>

\* Faulty variant of the rewrite step: the scan goes on with its snapshot.
scan_rewrite_continue ==
    /\ pc = "scan" /\ Top.bi = 0 /\ Top.i <= Len(Top.snap)
    /\ Len(ops[CurOp].blocks) = 0
    /\ Selected(CurOp)
    /\ LET r == call_remove_fn(_match_pattern(CurOp), CurOp, Top.block)
       IN  /\ r.status
           /\ ops' = r.ops
           /\ blocks' = r.blocks
           /\ last' = Step("rewrite", CurOp, r.input_var, Users(outputs(ops, CurOp)[1]))
    /\ Advance
    /\ rewrites' = [rewrites EXCEPT ![run] = @ + 1]
    /\ UNCHANGED <<regVars, functions, ops_to_skip, pc, fi, block_changed, run, prog0>>

\* status = remove_fn(op, block) is true: return status
scan_rewrite ==
    /\ Scanning
    /\ Len(ops[CurOp].blocks) = 0
    /\ Selected(CurOp)
    /\ LET r == call_remove_fn(_match_pattern(CurOp), CurOp, Top.block)
       IN  /\ r.status
           /\ ops' = r.ops
           /\ blocks' = r.blocks
           /\ Return(r.status)
           /\ last' = Step("rewrite", CurOp, r.input_var, Users(outputs(ops, CurOp)[1]))
    /\ rewrites' = [rewrites EXCEPT ![run] = @ + 1]
    /\ UNCHANGED <<regVars, functions, ops_to_skip, fi, run, prog0>>

\* Faulty variant of the end of the scan: True is returned.
scan_end_changed ==
    /\ pc = "scan"
    /\ Top.bi = 0
    /\ Top.i > Len(Top.snap)
    /\ Return(TRUE)
    /\ last' = NoStep
    /\ UNCHANGED <<regVars, ops, blocks, functions, ops_to_skip, fi, run, rewrites, prog0>>

\* the for loop over the snapshot is exhausted: return False
scan_end ==
    /\ pc = "scan"
    /\ Top.bi = 0
    /\ Top.i > Len(Top.snap)
    /\ Return(FALSE)
    /\ last' = NoStep
    /\ UNCHANGED <<regVars, ops, blocks, functions, ops_to_skip, fi, run, rewrites, prog0>>

PassNext ==
    \/ apply_enter
    \/ apply_call
    \/ apply_next_function
    \/ apply_return
    \/ scan_enter_blocks
    \/ nested_call
    \/ nested_next_block
    \/ nested_continue
    \/ scan_no_match
    \/ scan_declined
    \/ scan_rewrite
    \/ scan_end

(***************************************************************************)
(* The programs the pass is run on.  A program has one or two functions;   *)
(* its operations are numbered 1..n in program order; the k-th nested      *)
(* block of operation i is block NestedBlock(i, k); blocks 1 and 2 are the *)
(* functions' top-level blocks.  A constant an operation refers to is a    *)
(* const operation at the head of its function's top-level block.          *)
(***************************************************************************)
NestedBlock(i, k) == 2 + 2 * (i - 1) + k

Owner(b) == ((b - 3) \div 2) + 1

\* the constants of a function: value and type
ConstPool ==
    << [val |-> <<0>>, sym_type |-> "fp32(4,1)"],
       [val |-> <<1>>, sym_type |-> "fp32(4,1)"],
       [val |-> <<0>>, sym_type |-> "fp32(4,4)"],
       [val |-> <<1>>, sym_type |-> "fp32(4,4)"],
       [val |-> <<0, 1>>, sym_type |-> "fp32(4,1)"],
       [val |-> <<0, 0>>, sym_type |-> "fp32(4,4)"] >>

ConstId(f, k) == MaxOps + (f - 1) * Len(ConstPool) + k

ConstVars(f, ks) == {Var(ConstId(f, k), 1) : k \in ks}

ConstOp(f, k) ==
    [op_type |-> "const", inputs |-> <<>>, out_types |-> <<ConstPool[k].sym_type>>,
     val |-> Some(ConstPool[k].val), perm |-> <<>>, alpha |-> 0, beta |-> 0,
     blocks |-> <<>>, enclosing_block |-> f]

\* the const operation with identity c
ConstOfId(c) ==
    LET f == ((c - MaxOps - 1) \div Len(ConstPool)) + 1
    IN  ConstOp(f, c - MaxOps - (f - 1) * Len(ConstPool))

\* the operation o of a partial program, constants included
OpOf(O, o) == IF o > MaxOps THEN ConstOfId(o) ELSE O[o]

TypeOf(O, v) == IF v.op = 0 THEN InputType ELSE OpOf(O, v.op).out_types[v.idx]

Perms == {<<0, 1, 2>>, <<-3, -2, -1>>, <<0, -2, 2>>, <<1, 0, 2>>, <<-1, -2, -3>>,
          <<0, 2, 1>>, <<0, 1>>, <<-1, 0>>}

Unary(t, x, ty, nout) ==
    [op_type |-> t, inputs |-> [x |-> x], out_types |-> [k \in 1..nout |-> ty],
     val |-> None, perm |-> <<>>, alpha |-> 0, beta |-> 0, nblocks |-> 0]

Binary(t, x, y, ty) ==
    [op_type |-> t, inputs |-> [x |-> x, y |-> y], out_types |-> <<ty>>,
     val |-> None, perm |-> <<>>, alpha |-> 0, beta |-> 0, nblocks |-> 0]

Control(f, nb) ==
    [op_type |-> "cond", inputs |-> [pred |-> Var(0, f)], out_types |-> <<InputType>>,
     val |-> None, perm |-> <<>>, alpha |-> 0, beta |-> 0, nblocks |-> nb]

\* The operations a one-operation program draws from: every supported type
\* with every combination of operands, constants and types.  The output of
\* relu, linear_activation and of a transpose that leaves the axes in place
\* has the type of its input, as type inference gives it.
WideOptions(O, f, vs) ==
    LET any == vs \cup ConstVars(f, 1..Len(ConstPool))
    IN       {Binary(t, x, y, ty) :
                 t \in {"add", "mul", "floor_div", "pow", "real_div", "sub"},
                 x \in any, y \in any, ty \in SymTypes}
        \cup {Unary(t, x, ty, nout) :
                 t \in {"reshape", "split", "slice_by_index", "slice_by_size", "pad",
                        "tile", "upsample_nearest_neighbor", "upsample_bilinear",
                        "resize_bilinear", "crop"},
                 x \in vs \cup ConstVars(f, {3}), ty \in SymTypes, nout \in 1..2}
        \cup {d \in {[Unary("transpose", x, ty, 1) EXCEPT !.perm = p] :
                        x \in vs, p \in Perms, ty \in SymTypes} :
                 is_sorted(normalized_perm(d.perm))
                    => d.out_types[1] = TypeOf(O, d.inputs.x)}
        \cup {[Unary("linear_activation", x, TypeOf(O, x), 1)
                   EXCEPT !.alpha = a, !.beta = b] :
                 x \in vs, a \in 0..2, b \in 0..1}
        \cup {Unary("relu", x, TypeOf(O, x), 1) : x \in vs}
        \cup {Control(f, nb) : nb \in 1..2}

\* The operations a longer program draws from: one representative of each
\* way an operation can behave as producer, consumer or candidate.  recent
\* is the visible value defined last, near holds the last two.  Only the
\* first operation of such a program may own two nested blocks.
NarrowOptions(O, f, near, recent) ==
             {Unary("reshape", x, ty, 1) : x \in {recent}, ty \in SymTypes}
        \cup {d \in {Unary("reshape", x, ty, 1) : x \in near \ {recent}, ty \in SymTypes} :
                 d.out_types[1] # TypeOf(O, d.inputs.x)}
        \cup {Unary("reshape", x, TypeOf(O, x), 1) : x \in ConstVars(f, {1})}
        \cup {Binary(t, x, y, TypeOf(O, x)) :
                 t \in {"add", "mul"}, x \in {recent}, y \in ConstVars(f, {1})}
        \cup {Control(f, nb) : nb \in 1..(IF O = <<>> THEN 2 ELSE 1)}

\* The operations a program of more than three operations draws from: the
\* links of a chain of rewrites and the operations that interrupt it.
ChainOptions(O, f, recent) ==
             {Unary("reshape", x, ty, 1) : x \in {recent}, ty \in SymTypes}
        \cup {Binary("add", x, y, TypeOf(O, x)) : x \in {recent}, y \in ConstVars(f, {1})}
        \cup {Control(f, 1)}

\* A partial program: the operations 1..n placed so far and the path of
\* blocks, outermost first, that are still open at the place of insertion.
EmptyPartial == [n |-> 0, O |-> <<>>, path |-> <<1>>]

\* the blocks after b that the next operation may open instead of b: the
\* later blocks of the operation b belongs to; the second function only for
\* the last operation of the program
LaterSiblings(O, b, islast) ==
    IF b <= 2 THEN (IF islast THEN (b + 1)..2 ELSE {})
    ELSE (b + 1)..NestedBlock(Owner(b), Len(O[Owner(b)].blocks))

\* the blocks from the top-level block down to b
RECURSIVE Chain(_, _)
Chain(O, b) == IF b <= 2 THEN <<b>> ELSE Chain(O, O[Owner(b)].enclosing_block) \o <<b>>

\* the operations whose output is visible at the end of block b: its own
\* operations and those of the enclosing blocks that come before the
\* operation b belongs to
VisibleOps(O, n, b) ==
    LET chain == Chain(O, b)
    IN  {q \in 1..n :
            \/ O[q].enclosing_block = b
            \/ \E k \in 1..(Len(chain) - 1) :
                  /\ O[q].enclosing_block = chain[k]
                  /\ q < Owner(chain[k + 1])}

Max(S) == CHOOSE x \in S : \A y \in S : y <= x

\* partial program p extended by operation d placed at the end of block b
Extended(p, b, j, d) ==
    LET self == p.n + 1
    IN  [n |-> self,
         O |-> Append(p.O, [op_type |-> d.op_type, inputs |-> d.inputs,
                            out_types |-> d.out_types, val |-> d.val,
                            perm |-> d.perm, alpha |-> d.alpha, beta |-> d.beta,
                            blocks |-> [k \in 1..d.nblocks |-> NestedBlock(self, k)],
                            enclosing_block |-> b]),
         path |-> SubSeq(p.path, 1, j - 1) \o <<b>> \o
                  (IF d.nblocks > 0 THEN <<NestedBlock(self, 1)>> ELSE <<>>)]

\* the values visible at the end of block b defined last: the outputs of the
\* last two visible operations, or the function's input when there are fewer
Near(p, b) ==
    LET vis == VisibleOps(p.O, p.n, b)
        top == IF vis = {} THEN {} ELSE {Max(vis)}
        two == IF vis \ top = {} THEN {} ELSE {Max(vis \ top)}
    IN  {Var(o, 1) : o \in top \cup two}
        \cup (IF two = {} THEN {Var(0, Chain(p.O, b)[1])} ELSE {})

\* the value visible at the end of block b defined last
Recent(p, b) ==
    LET vis == VisibleOps(p.O, p.n, b)
    IN  IF vis = {} THEN Var(0, Chain(p.O, b)[1]) ELSE Var(Max(vis), 1)

\* the operations that may be placed at the end of block b of p
Options(p, b, family) ==
    LET f == Chain(p.O, b)[1]
    IN  CASE family = "wide" ->
               WideOptions(p.O, f, {Var(0, f)} \cup {Var(o, 1) : o \in VisibleOps(p.O, p.n, b)})
          [] family = "narrow" -> NarrowOptions(p.O, f, Near(p, b), Recent(p, b))
          [] family = "chain" -> ChainOptions(p.O, f, Recent(p, b))

\* the ascending sequence of the elements of a finite set of numbers
RECURSIVE Ascending(_)
Ascending(S) ==
    IF S = {} THEN <<>>
    ELSE LET m == CHOOSE x \in S : \A y \in S : x <= y
         IN  <<m>> \o Ascending(S \ {m})

\* The ways of giving each block one declared output, a value visible at
\* its end.  A one-operation program: any value.  A longer program: every
\* block declares the value defined last, or every block declares its
\* function's input.
OutputChoices(p, bs, family) ==
    IF family = "wide"
    THEN {g \in [bs -> UNION {Near(p, b) : b \in bs}] : \A b \in bs : g[b] \in Near(p, b)}
    ELSE {[b \in bs |-> Recent(p, b)], [b \in bs |-> Var(0, Chain(p.O, b)[1])]}

\* the program of a finished partial program whose blocks declare out
Program(p, out) ==
    LET refs == UNION {{p.O[q].inputs[k].op : k \in DOMAIN p.O[q].inputs} : q \in 1..p.n}
                \ (0..MaxOps)
        live == DOMAIN out
    IN  [ops |-> [o \in (1..p.n) \cup refs |-> OpOf(p.O, o)],
         blocks |-> [b \in 1..NestedBlock(MaxOps, 2) |->
              IF b \in live
              THEN [operations |->
                      Ascending({c \in refs : ConstOfId(c).enclosing_block = b})
                      \o Ascending({q \in 1..p.n : p.O[q].enclosing_block = b}),
                    outputs |-> <<out[b]>>]
              ELSE [operations |-> <<>>, outputs |-> <<>>]],
         functions |-> IF 2 \in live THEN <<1, 2>> ELSE <<1>>]

\* the blocks of a finished partial program
LiveBlocks(p) ==
    {1} \cup {p.O[q].enclosing_block : q \in 1..p.n}
        \cup UNION {{p.O[q].blocks[k] : k \in 1..Len(p.O[q].blocks)} : q \in 1..p.n}

RECURSIVE Build(_, _, _)
\* the program handed to apply is p extended by k more operations
Build(p, k, family) ==
    IF k = 0
    THEN \E out \in OutputChoices(p, LiveBlocks(p), family) :
            LET prog == Program(p, out)
            IN  /\ ops = prog.ops
                /\ blocks = prog.blocks
                /\ functions = prog.functions
                /\ prog0 = prog
    ELSE \E j \in 1..Len(p.path) :
            \E b \in {p.path[j]} \cup LaterSiblings(p.O, p.path[j], k = 1) :
               \E d \in Options(p, b, family) :
                  Build(Extended(p, b, j, d), k - 1, family)

(***************************************************************************)
(* torch_op_registry.py.  An operator name is the sequence of its          *)
(* characters; a conversion function is a record of its __name__ and of an *)
(* identity that tells apart two functions of the same name.               *)
(***************************************************************************)
MaxCalls == 3

Funcs ==
    {[name |-> <<"a">>, id |-> 1], [name |-> <<"a">>, id |-> 2],
     [name |-> <<"b">>, id |-> 1], [name |-> <<"a", "_">>, id |-> 1],
     [name |-> <<"_", "_", "a">>, id |-> 2]}

\* the values of the argument torch_alias: None or a list of names
Aliases ==
    {None, Some(<<>>), Some(<< <<"b">> >>), Some(<< <<"b", "_">> >>),
     Some(<< <<"b">>, <<"a">> >>)}

\* the names the queries are made with
LookupNames ==
    {<<>>, <<"a">>, <<"b">>, <<"a", "_">>, <<"b", "_">>, <<"_">>, <<"_", "_">>,
     <<"_", "_", "_">>, <<"a", "_", "_">>, <<"_", "_", "a">>, <<"_", "_", "a", "_">>,
     <<"_", "_", "a", "_", "_">>, <<"_", "_", "b", "_", "_">>}

\* the keys the deprecated item access is made with
ItemKeys == {<<"a">>, <<"a", "_">>, <<"_", "_", "a", "_", "_">>}

\* str.startswith("__"), str.endswith("__"), str.endswith("_")
startswith__(s) == Len(s) >= 2 /\ s[1] = "_" /\ s[2] = "_"

endswith__(s) == Len(s) >= 2 /\ s[Len(s) - 1] = "_" /\ s[Len(s)] = "_"

endswith_(s) == Len(s) >= 1 /\ s[Len(s)] = "_"

\* Faulty variant of the sanitization: the in-place rule is tried first.
sanitize_inplace_first(op_lookup) ==
    IF endswith_(op_lookup)
    THEN SubSeq(op_lookup, 1, Len(op_lookup) - 1)
    ELSE IF startswith__(op_lookup) /\ endswith__(op_lookup)
         THEN SubSeq(op_lookup, 3, Len(op_lookup) - 2)
         ELSE op_lookup

\* get_func: the key that is looked up for op_lookup, op_lookup[2:-2] or
\* op_lookup[:-1] or op_lookup
sanitize(op_lookup) ==
    IF startswith__(op_lookup) /\ endswith__(op_lookup)
    THEN SubSeq(op_lookup, 3, Len(op_lookup) - 2)
    ELSE IF endswith_(op_lookup)
         THEN SubSeq(op_lookup, 1, Len(op_lookup) - 1)
         ELSE op_lookup

\* Faulty variant of get_func: a trailing underscore is not stripped.
get_func_dunder_only(mapping, op_lookup) ==
    LET key == IF startswith__(op_lookup) /\ endswith__(op_lookup)
               THEN SubSeq(op_lookup, 3, Len(op_lookup) - 2)
               ELSE op_lookup
    IN  IF key \in DOMAIN mapping THEN Some(mapping[key]) ELSE None

\* TorchOpsRegistry.get_func: the function registered for the sanitized key,
\* or None
get_func(mapping, op_lookup) ==
    LET key == sanitize(op_lookup)
    IN  IF key \in DOMAIN mapping THEN Some(mapping[key]) ELSE None

\* TorchOpsRegistry.set_func_by_name, __setitem__
set_func_by_name(mapping, func, name) ==
    [k \in DOMAIN mapping \cup {name} |-> IF k = name THEN func ELSE mapping[k]]

RECURSIVE register_names(_, _, _, _)
\* for name in all_f_names: ... ; the mapping the loop leaves and what it raised
register_names(mapping, func, names, override) ==
    IF names = <<>> THEN [mapping |-> mapping, raised |-> "None"]
    ELSE LET name == Head(names)
         IN  IF endswith_(name) THEN [mapping |-> mapping, raised |-> "Exception"]
             ELSE IF ~override /\ name \in DOMAIN mapping
                  THEN [mapping |-> mapping, raised |-> "ValueError"]
                  ELSE register_names(set_func_by_name(mapping, func, name), func,
                                      Tail(names), override)

all_f_names(func, torch_alias) ==
    IF torch_alias # None THEN <<func.name>> \o torch_alias[1] ELSE <<func.name>>

RECURSIVE register_names_any_name(_, _, _, _)
\* Faulty variant of the loop of register_func: a trailing underscore is not
\* looked for.
register_names_any_name(mapping, func, names, override) ==
    IF names = <<>> THEN [mapping |-> mapping, raised |-> "None"]
    ELSE LET name == Head(names)
         IN  IF ~override /\ name \in DOMAIN mapping
             THEN [mapping |-> mapping, raised |-> "ValueError"]
             ELSE register_names_any_name(set_func_by_name(mapping, func, name), func,
                                          Tail(names), override)

register_func_any_name(mapping, func, torch_alias, override) ==
    register_names_any_name(mapping, func, all_f_names(func, torch_alias), override)

\* Variant of register_func that binds nothing when it fails.
register_func_atomic(mapping, func, torch_alias, override) ==
    LET r == register_names(mapping, func, all_f_names(func, torch_alias), override)
    IN  IF r.raised = "None" THEN r ELSE [mapping |-> mapping, raised |-> r.raised]

\* Faulty variant of register_func: override is taken to be false.
register_func_add_only(mapping, func, torch_alias, override) ==
    register_names(mapping, func, all_f_names(func, torch_alias), FALSE)

\* TorchOpsRegistry.register_func
register_func(mapping, func, torch_alias, override) ==
    register_names(mapping, func, all_f_names(func, torch_alias), override)

\* TorchOpsRegistry.is_inplace_op
is_inplace_op(op_lookup) ==
    ~(startswith__(op_lookup) /\ endswith__(op_lookup)) /\ endswith_(op_lookup)

\* Faulty variant of __contains__: the last character of the key is dropped
\* whatever it is.
contains_stripped(mapping, key) == SubSeq(key, 1, Len(key) - 1) \in DOMAIN mapping

\* TorchOpsRegistry.__contains__
contains(mapping, key) == key \in DOMAIN mapping

\* what a call did: the object and the names it was given, override, what
\* it raised, what it returned and the mapping it found
Outcome(call, func, names, override, raised, result, before) ==
    [call |-> call, func |-> func, names |-> names, override |-> override,
     raised |-> raised, result |-> result, before |-> before]

\* register_torch_op(func, torch_alias, override), called directly or as a
\* decorator: func_wrapper calls register_func
register_torch_op ==
    /\ calls < MaxCalls
    /\ \E func \in Funcs, torch_alias \in Aliases, override \in BOOLEAN :
          LET r == register_func(name_to_func_mapping, func, torch_alias, override)
          IN  /\ name_to_func_mapping' = r.mapping
              /\ outcome' = Outcome("register_func", Some(func),
                                    all_f_names(func, torch_alias), override, r.raised,
                                    None, name_to_func_mapping)
    /\ calls' = calls + 1
    /\ UNCHANGED <<passVars, threads>>

\* _TORCH_OPS_REGISTRY.get_func(op_lookup)
resolve ==
    /\ \E op_lookup \in LookupNames :
          outcome' = Outcome("get_func", None, <<op_lookup>>, FALSE, "None",
                             get_func(name_to_func_mapping, op_lookup),
                             name_to_func_mapping)
    /\ UNCHANGED <<passVars, name_to_func_mapping, calls, threads>>

\* _TORCH_OPS_REGISTRY.is_inplace_op(op_lookup)
inplace_query ==
    /\ \E op_lookup \in LookupNames :
          outcome' = Outcome("is_inplace_op", None, <<op_lookup>>, FALSE, "None",
                             Some(is_inplace_op(op_lookup)), name_to_func_mapping)
    /\ UNCHANGED <<passVars, name_to_func_mapping, calls, threads>>

\* key in _TORCH_OPS_REGISTRY
contains_query ==
    /\ \E key \in LookupNames :
          outcome' = Outcome("__contains__", None, <<key>>, FALSE, "None",
                             Some(contains(name_to_func_mapping, key)),
                             name_to_func_mapping)
    /\ UNCHANGED <<passVars, name_to_func_mapping, calls, threads>>

\* _TORCH_OPS_REGISTRY[key] = value
setitem ==
    /\ calls < MaxCalls
    /\ \E key \in ItemKeys, value \in Funcs :
          /\ value.name = <<"a">>
          /\ name_to_func_mapping' = set_func_by_name(name_to_func_mapping, value, key)
          /\ outcome' = Outcome("__setitem__", Some(value), <<key>>, FALSE, "None", None,
                                name_to_func_mapping)
    /\ calls' = calls + 1
    /\ UNCHANGED <<passVars, threads>>

\* del _TORCH_OPS_REGISTRY[key]: KeyError when the key is not there
delitem ==
    /\ calls < MaxCalls
    /\ \E key \in ItemKeys :
          IF key \in DOMAIN name_to_func_mapping
          THEN /\ name_to_func_mapping' =
                     [k \in DOMAIN name_to_func_mapping \ {key} |-> name_to_func_mapping[k]]
               /\ outcome' = Outcome("__delitem__", None, <<key>>, FALSE, "None", None,
                                     name_to_func_mapping)
          ELSE /\ UNCHANGED name_to_func_mapping
               /\ outcome' = Outcome("__delitem__", None, <<key>>, FALSE, "KeyError", None,
                                     name_to_func_mapping)
    /\ calls' = calls + 1
    /\ UNCHANGED <<passVars, threads>>

\* _TORCH_OPS_REGISTRY[key]: KeyError when the key is not there
getitem ==
    /\ \E key \in LookupNames :
          outcome' = IF key \in DOMAIN name_to_func_mapping
                     THEN Outcome("__getitem__", None, <<key>>, FALSE, "None",
                                  Some(name_to_func_mapping[key]), name_to_func_mapping)
                     ELSE Outcome("__getitem__", None, <<key>>, FALSE, "KeyError", None,
                                  name_to_func_mapping)
    /\ UNCHANGED <<passVars, name_to_func_mapping, calls, threads>>

\* the torch fx nodes the gate is asked about: node.op and the name of
\* node.target (a string, or an object with a __name__)
FxNodes ==
    [op : {"call_function", "call_method"},
     target : {<<"a">>, <<"A">>, <<"b">>, <<"a", "_">>, <<"_", "_", "a", "_", "_">>,
               <<"a", "t", "e", "n", ".", "a">>, <<"a", "t", "e", "n", ".", "B">>}]

\* str.lower
lower(s) ==
    [k \in 1..Len(s) |-> CASE s[k] = "A" -> "a" [] s[k] = "B" -> "b" [] OTHER -> s[k]]

_ATEN_NODE_PREFIX == <<"a", "t", "e", "n", ".">>

\* str.startswith(prefix)
startswith(s, prefix) == Len(s) >= Len(prefix) /\ SubSeq(s, 1, Len(prefix)) = prefix

\* the name is_torch_fx_node_supported looks up for a call_function node
\* whose lower-case target name passes the assertion
fx_node_target_name(torch_fx_node) ==
    LET torch_fx_node_target_name == lower(torch_fx_node.target)
    IN  IF startswith(torch_fx_node_target_name, _ATEN_NODE_PREFIX)
        THEN SubSeq(torch_fx_node_target_name, Len(_ATEN_NODE_PREFIX) + 1,
                    Len(torch_fx_node_target_name))
        ELSE torch_fx_node_target_name

\* is_torch_fx_node_supported(torch_fx_node)
is_torch_fx_node_supported ==
    /\ \E torch_fx_node \in FxNodes :
          outcome' =
             IF torch_fx_node.op # "call_function"
             THEN Outcome("is_torch_fx_node_supported", Some(torch_fx_node),
                          <<torch_fx_node.target>>, FALSE, "None", Some(FALSE),
                          name_to_func_mapping)
             ELSE IF endswith_(lower(torch_fx_node.target))
             THEN Outcome("is_torch_fx_node_supported", Some(torch_fx_node),
                          <<torch_fx_node.target>>, FALSE, "AssertionError", None,
                          name_to_func_mapping)
             ELSE Outcome("is_torch_fx_node_supported", Some(torch_fx_node),
                          <<torch_fx_node.target>>, FALSE, "None",
                          Some(contains(name_to_func_mapping,
                                        fx_node_target_name(torch_fx_node))),
                          name_to_func_mapping)
    /\ UNCHANGED <<passVars, name_to_func_mapping, calls, threads>>

RegNext ==
    \/ register_torch_op
    \/ resolve
    \/ inplace_query
    \/ contains_query
    \/ setitem
    \/ delitem
    \/ getitem
    \/ is_torch_fx_node_supported

PassInit ==
    /\ \/ Build(EmptyPartial, 1, "wide")
       \/ \E n \in 2..MaxOps :
             Build(EmptyPartial, n, IF n <= 3 THEN "narrow" ELSE "chain")
    /\ ops_to_skip = {}
    /\ pc = "idle"
    /\ fi = 1
    /\ block_changed = FALSE
    /\ stack = <<>>
    /\ run = 0
    /\ rewrites = [r \in 1..2 |-> 0]
    /\ last = NoStep

\* the callers that may be inside register_func at the same time
Threads == {1, 2}

\* A call of register_func in progress: the handler, all_f_names, the names
\* the for loop has still to visit, the override flag, where the caller
\* stands ("check": before the tests of the loop body for Head(names),
\* "bind": after them and before set_func_by_name, "returned", "raised",
\* "idle": no call) and what it raised.
Call(func, names, override) ==
    [at |-> "check", func |-> Some(func), all |-> names, names |-> names,
     override |-> override, raised |-> "None"]

NoCall ==
    [at |-> "idle", func |-> None, all |-> <<>>, names |-> <<>>,
     override |-> FALSE, raised |-> "None"]

\* _TORCH_OPS_REGISTRY = TorchOpsRegistry(): the mapping is empty
RegIdle ==
    /\ name_to_func_mapping = <<>>
    /\ calls = 0
    /\ outcome = Outcome("none", None, <<>>, FALSE, "None", None, <<>>)
    /\ threads = [t \in Threads |-> NoCall]

\* the registry is used while no pass runs: a program of one empty function
PassIdle ==
    /\ ops = <<>>
    /\ blocks = [b \in {1} |-> [operations |-> <<>>, outputs |-> <<Var(0, 1)>>]]
    /\ functions = <<1>>
    /\ prog0 = [ops |-> ops, blocks |-> blocks, functions |-> functions]
    /\ ops_to_skip = {}
    /\ pc = "idle"
    /\ fi = 1
    /\ block_changed = FALSE
    /\ stack = <<>>
    /\ run = 0
    /\ rewrites = [r \in 1..2 |-> 0]
    /\ last = NoStep

RegInit == PassIdle /\ RegIdle

RegSpec == RegInit /\ [][RegNext]_vars

\* the registry filled by register calls only, as the module does when the
\* handlers are defined
RegisterNext ==
    \/ register_torch_op
    \/ resolve
    \/ inplace_query
    \/ contains_query
    \/ getitem
    \/ is_torch_fx_node_supported

RegisterSpec == RegInit /\ [][RegisterNext]_vars

(***************************************************************************)
(* register_func called by several callers at once.  Nothing in the class  *)
(* holds a lock: the tests of the loop body read the mapping, and          *)
(* set_func_by_name writes it, as two steps another caller can come        *)
(* between.                                                                *)
(***************************************************************************)
\* Faulty variant of the tests of the loop body: an existing binding is not
\* looked for.
thread_check_no_duplicate(t) ==
    /\ threads[t].at = "check"
    /\ LET name == Head(threads[t].names)
       IN  threads' = [threads EXCEPT ![t] =
               IF endswith_(name)
               THEN [@ EXCEPT !.at = "raised", !.raised = "Exception"]
               ELSE [@ EXCEPT !.at = "bind"]]
    /\ UNCHANGED <<passVars, name_to_func_mapping, calls, outcome>>

\* caller t evaluates the two tests of the loop body for the next name
thread_check(t) ==
    /\ threads[t].at = "check"
    /\ LET name == Head(threads[t].names)
       IN  threads' = [threads EXCEPT ![t] =
               IF endswith_(name)
               THEN [@ EXCEPT !.at = "raised", !.raised = "Exception"]
               ELSE IF ~threads[t].override /\ name \in DOMAIN name_to_func_mapping
                    THEN [@ EXCEPT !.at = "raised", !.raised = "ValueError"]
                    ELSE [@ EXCEPT !.at = "bind"]]
    /\ UNCHANGED <<passVars, name_to_func_mapping, calls, outcome>>

\* caller t binds the name and goes on to the next one, or returns
thread_bind(t) ==
    /\ threads[t].at = "bind"
    /\ name_to_func_mapping' =
           set_func_by_name(name_to_func_mapping, threads[t].func[1],
                            Head(threads[t].names))
    /\ threads' = [threads EXCEPT ![t] =
           [@ EXCEPT !.names = Tail(@),
                     !.at = IF Tail(threads[t].names) = <<>> THEN "returned"
                            ELSE "check"]]
    /\ UNCHANGED <<passVars, calls, outcome>>

ConcurrentNext ==
    \/ \E t \in Threads : thread_check(t)
    \/ \E t \in Threads : thread_bind(t)

\* every caller has entered register_func on the empty registry
ConcurrentInit ==
    /\ PassIdle
    /\ name_to_func_mapping = <<>>
    /\ calls = 0
    /\ outcome = Outcome("none", None, <<>>, FALSE, "None", None, <<>>)
    /\ \E c \in [Threads -> Funcs \X Aliases \X BOOLEAN] :
          threads = [t \in Threads |->
                        Call(c[t][1], all_f_names(c[t][1], c[t][2]), c[t][3])]

ConcurrentSpec == ConcurrentInit /\ [][ConcurrentNext]_vars

Init == PassInit /\ RegIdle

Next == PassNext

Spec == Init /\ [][Next]_vars

(***************************************************************************)
(* Vocabulary of the properties.                                           *)
(***************************************************************************)
\* the operations of program (O, B, F)
OpsIn(O, B, F) ==
    LET order == ProgramOrder(O, B, F)
    IN  {order[k] : k \in 1..Len(order)}

\* the operations of the program now, and when it was handed to apply
Present == OpsIn(ops, blocks, functions)

Present0 == OpsIn(prog0.ops, prog0.blocks, prog0.functions)

\* the blocks of the program: the functions' and those nested in operations
LiveBlocksNow ==
    {functions[k] : k \in 1..Len(functions)}
    \cup UNION {{ops[o].blocks[k] : k \in 1..Len(ops[o].blocks)} : o \in Present}

\* the value is a function input or an output of an operation of the program
Resolves(v) == v.op = 0 \/ v.op \in Present

\* op's first output is a declared output of the block op is in
IsBlockOutput(op) ==
    InList(Var(op, 1), blocks[ops[op].enclosing_block].outputs)

\* the removal strategy of op's type would rewrite op in the current graph
StrategySucceeds(op) ==
    /\ ops[op].op_type \in _SUPPORTED_OPS
    /\ call_remove_fn(op_to_removal_fn(ops[op].op_type), op,
                      ops[op].enclosing_block).status

\* the scan would rewrite op if it came to it now
Eligible(op) ==
    /\ Len(ops[op].blocks) = 0
    /\ Selected(op)
    /\ call_remove_fn(_match_pattern(op), op, ops[op].enclosing_block).status

\* apply has returned at least once and is not running
Returned == pc = "idle" /\ run >= 1

\* the operations nested, at any depth, in the blocks of operation P
InsideOf(P) ==
    LET order == FlattenBlocks(ops, blocks, ops[P].blocks)
    IN  {order[k] : k \in 1..Len(order)}

\* the element an operand of a binary operation of type t must equal, on the
\* left (side "x") or on the right (side "y"), for the operation to do nothing
IsIdentity(t, side, v) ==
    /\ val(ops, v) # None
    /\ \/ t = "add" /\ np_all_eq(val(ops, v)[1], 0)
       \/ t = "mul" /\ np_all_eq(val(ops, v)[1], 1)
       \/ t = "sub" /\ side = "y" /\ np_all_eq(val(ops, v)[1], 0)
       \/ t \in {"floor_div", "pow", "real_div"} /\ side = "y"
             /\ np_all_eq(val(ops, v)[1], 1)

ElementwiseBinary == {"add", "mul", "floor_div", "pow", "real_div", "sub"}

ShapePreserving ==
    {"reshape", "split", "slice_by_index", "slice_by_size", "pad", "tile",
     "upsample_nearest_neighbor", "upsample_bilinear", "resize_bilinear", "crop"}

\* the operand that takes the place of op's output when op is removed
SurvivingOperand(op) ==
    IF ops[op].op_type \in ElementwiseBinary
           /\ IsIdentity(ops[op].op_type, "x", ops[op].inputs.x)
    THEN ops[op].inputs.y
    ELSE ops[op].inputs.x

(***************************************************************************)
(* C1.  Block-output guard: an operation whose first output is a declared  *)
(* output of its enclosing block is never removed, whatever its type,      *)
(* operands and constants, in every state of the fixed-point loop.         *)
(***************************************************************************)
BlockOutputGuard ==
    \A o \in Present0 : IsBlockOutput(o) => o \in Present

\* apply has returned and kept an operation that its strategy would have
\* removed had its output not been declared by its block
BlockOutputGuardWitness ==
    /\ Returned
    /\ \E o \in Present :
          /\ IsBlockOutput(o)
          /\ Len(ops[o].out_types) = 1
          /\ StrategySucceeds(o)

(***************************************************************************)
(* C2.  After apply returns and after every rewrite, every declared output *)
(* of every block at every depth is a function input or an output of an    *)
(* operation still in the program.                                         *)
(***************************************************************************)
DeclaredOutputsLive ==
    \A b \in LiveBlocksNow :
        \A k \in 1..Len(blocks[b].outputs) : Resolves(blocks[b].outputs[k])

(***************************************************************************)
(* C3.  When a strategy deletes an operation, no operation of the program  *)
(* consumes its output any more.                                           *)
(***************************************************************************)
NoLiveUseOfRemoved ==
    \A c \in Present :
        \A k \in DOMAIN ops[c].inputs : Resolves(ops[c].inputs[k])

\* an operation of a nested block that had a consumer was just removed in
\* favour of a value defined by an operation of an enclosing block
NoLiveUseWitness ==
    /\ last.kind = "rewrite"
    /\ last.users # {}
    /\ ops[last.op].enclosing_block > 2
    /\ last.input_var.op # 0
    /\ ops[last.input_var.op].enclosing_block # ops[last.op].enclosing_block

(***************************************************************************)
(* C4.  Elimination idempotence: a second apply right after the first      *)
(* performs no rewrite; equivalently, when apply has returned no operation *)
(* of any block at any depth would be rewritten by the scan.               *)
(***************************************************************************)
Idempotent ==
    /\ rewrites[2] = 0
    /\ Returned => \A o \in Present : ~Eligible(o)

\* the second apply has returned after a first one that rewrote twice
IdempotentWitness ==
    /\ pc = "idle"
    /\ run = 2
    /\ rewrites[1] >= 2

(***************************************************************************)
(* C5.  Termination: every successful rewrite removes exactly one          *)
(* operation and no other step changes the number of operations, and both  *)
(* calls of apply return.                                                  *)
(***************************************************************************)
OpCount == Cardinality(Present)

Terminates ==
    /\ [][IF rewrites' # rewrites THEN OpCount' = OpCount - 1
                                  ELSE OpCount' = OpCount]_vars
    /\ <>(pc = "idle" /\ run = 2)

\* apply has returned after rewrites in a nested block and in its parent
TerminatesWitness ==
    /\ Returned
    /\ \E o \in Present0 \ Present : ops[o].enclosing_block > 2
    /\ \E o \in Present0 \ Present : ops[o].enclosing_block <= 2

(***************************************************************************)
(* C6.  Rewrite correctness: a rewrite that removes X in favour of V takes *)
(* X out of its block and nothing else, makes every consumer of X's output *)
(* consume V in the same input position, leaves every other input of every *)
(* operation as it was, and leaves the declared outputs of every           *)
(* function's top-level block as they were before apply.                   *)
(***************************************************************************)
RewriteCorrect ==
    [][rewrites' # rewrites =>
         LET X == last'.op
             V == SurvivingOperand(X)
         IN  /\ X \in Present
             /\ Present' = Present \ {X}
             /\ \A b \in DOMAIN blocks :
                   blocks'[b].operations = Without(blocks[b].operations, {X})
             /\ \A c \in DOMAIN ops \ {X} :
                   /\ DOMAIN ops'[c].inputs = DOMAIN ops[c].inputs
                   /\ \A k \in DOMAIN ops[c].inputs :
                         ops'[c].inputs[k] = IF ops[c].inputs[k] = Var(X, 1) THEN V
                                             ELSE ops[c].inputs[k]
             /\ \A f \in 1..Len(functions) :
                   blocks'[functions[f]].outputs = prog0.blocks[functions[f]].outputs]_vars

\* %1 = someOp(); %2 = add(%1, 0); %3 = mul(%2, c) with type(%1) = type(%2):
\* apply has returned, %2 is gone and %3 consumes %1
RewriteCorrectWitness ==
    /\ Returned
    /\ {1, 2, 3} \subseteq Present0
    /\ prog0.ops[2].op_type = "add"
    /\ prog0.ops[2].inputs.x = Var(1, 1)
    /\ IsIdentity("add", "y", prog0.ops[2].inputs.y)
    /\ sym_type(ops, Var(1, 1)) = sym_type(ops, Var(2, 1))
    /\ prog0.ops[3].op_type = "mul"
    /\ prog0.ops[3].inputs.x = Var(2, 1)
    /\ Present = Present0 \ {2}
    /\ ops[3].inputs.x = Var(1, 1)

(***************************************************************************)
(* C7.  Broadcast guard: an elementwise-binary or shape-preserving         *)
(* operation is never removed when the type of the operand that would      *)
(* survive differs from the type of the operation's output.                *)
(***************************************************************************)
BroadcastGuard ==
    \A o \in Present0 \ Present :
        ops[o].op_type \in ElementwiseBinary \cup ShapePreserving
            => sym_type(ops, SurvivingOperand(o)) = sym_type(ops, Var(o, 1))

\* %2 = add(%1, zeros) whose output has another type than %1 and is not a
\* declared output: apply has returned and kept it
BroadcastGuardWitness ==
    /\ Returned
    /\ \E o \in Present :
          /\ ops[o].op_type = "add"
          /\ val(ops, ops[o].inputs.x) = None
          /\ IsIdentity("add", "y", ops[o].inputs.y)
          /\ sym_type(ops, ops[o].inputs.x) # sym_type(ops, Var(o, 1))
          /\ sym_type(ops, ops[o].inputs.y) = sym_type(ops, Var(o, 1))
          /\ ~IsBlockOutput(o)

(***************************************************************************)
(* C8.  Permutation guard.  A transpose whose permutation, negative axes   *)
(* counted from the end, is not the identity is never removed.  Original   *)
(* statement: one whose permutation is the identity is always removed by   *)
(* apply.  Amended: it is removed by apply unless its output is a declared *)
(* output of its enclosing block.                                          *)
(***************************************************************************)
IsIdentityPerm(p) ==
    \A k \in 1..Len(p) : (IF p[k] >= 0 THEN p[k] ELSE p[k] + Len(p)) = k - 1

PermutationGuardOriginal ==
    \A o \in Present0 :
        ops[o].op_type = "transpose" =>
            /\ ~IsIdentityPerm(ops[o].perm) => o \in Present
            /\ IsIdentityPerm(ops[o].perm) /\ Returned => o \notin Present

PermutationGuard ==
    \A o \in Present0 :
        ops[o].op_type = "transpose" =>
            /\ ~IsIdentityPerm(ops[o].perm) => o \in Present
            /\ IsIdentityPerm(ops[o].perm) /\ Returned /\ ~IsBlockOutput(o)
                  => o \notin Present

\* apply has returned and removed a transpose whose permutation is the
\* identity only after its negative axis is counted from the end
PermutationGuardWitness ==
    /\ Returned
    /\ \E o \in Present0 \ Present :
          /\ ops[o].op_type = "transpose"
          /\ \E k \in 1..Len(ops[o].perm) : ops[o].perm[k] < 0
          /\ \E k \in 1..Len(ops[o].perm) : ops[o].perm[k] > 0

(***************************************************************************)
(* C9.  Nested-block recursion: an operation that owns nested blocks is    *)
(* never removed and keeps its blocks; when apply has returned no          *)
(* operation nested in it at any depth would be rewritten; and a scan that *)
(* has moved past it has left each of its nested blocks at a fixed point.  *)
(***************************************************************************)
NestedRecursion ==
    /\ \A P \in Present0 :
          Len(prog0.ops[P].blocks) > 0 =>
              /\ P \in Present
              /\ ops[P].blocks = prog0.ops[P].blocks
              /\ Returned => \A o \in InsideOf(P) : ~Eligible(o)
    /\ \A d \in 1..Len(stack) :
          \A j \in 1..Len(stack[d].snap) :
              j < stack[d].i => \A o \in InsideOf(stack[d].snap[j]) : ~Eligible(o)

\* apply has returned and removed an operation nested two blocks deep
NestedRecursionWitness ==
    /\ Returned
    /\ \E o \in Present0 \ Present :
          /\ ops[o].enclosing_block > 2
          /\ ops[Owner(ops[o].enclosing_block)].enclosing_block > 2

(***************************************************************************)
(* C10.  Re-registration.  A register call with override false that names  *)
(* a name which already has a handler fails and leaves the name bound to   *)
(* its prior handler.  Original statement: with override true the call     *)
(* always succeeds and resolve of the name then returns the new handler.   *)
(* Amended: with override true the call succeeds unless the handler's own  *)
(* name or one of the aliases ends with an underscore, and after a success *)
(* resolve of the name returns the new handler.                            *)
(***************************************************************************)
NamesOf(o) == {o.names[k] : k \in 1..Len(o.names)}

KeepsPriorHandler(n) ==
    /\ outcome.raised # "None"
    /\ n \in DOMAIN name_to_func_mapping
    /\ name_to_func_mapping[n] = outcome.before[n]

TakesNewHandler(n) ==
    /\ outcome.raised = "None"
    /\ get_func(name_to_func_mapping, n) = outcome.func

ReRegistrationOriginal ==
    outcome.call = "register_func" =>
        \A n \in NamesOf(outcome) \cap DOMAIN outcome.before :
            IF outcome.override THEN TakesNewHandler(n) ELSE KeepsPriorHandler(n)

ReRegistration ==
    outcome.call = "register_func" =>
        \A n \in NamesOf(outcome) \cap DOMAIN outcome.before :
            IF outcome.override
            THEN (\A m \in NamesOf(outcome) : ~endswith_(m)) => TakesNewHandler(n)
            ELSE KeepsPriorHandler(n)

\* a call with override true has replaced the handler of a name by another
ReRegistrationWitness ==
    /\ outcome.call = "register_func"
    /\ outcome.override
    /\ outcome.raised = "None"
    /\ \E n \in NamesOf(outcome) \cap DOMAIN outcome.before :
          /\ outcome.before[n] # outcome.func[1]
          /\ name_to_func_mapping[n] = outcome.func[1]

FairSpec == Spec /\ WF_vars(Next)

(***************************************************************************)
(* C11.  In-place names are never registered: a register call in which the *)
(* handler's own name or an alias ends with an underscore fails, whatever  *)
(* override is; and after any sequence of register calls from the empty    *)
(* registry no key of the registry ends with an underscore.                *)
(***************************************************************************)
InPlaceNeverRegistered ==
    /\ outcome.call = "register_func" /\ (\E n \in NamesOf(outcome) : endswith_(n))
          => outcome.raised # "None"
    /\ \A k \in DOMAIN name_to_func_mapping : ~endswith_(k)

\* a call with override true and an alias ending with an underscore has
\* failed in a registry that holds handlers
InPlaceNeverRegisteredWitness ==
    /\ outcome.call = "register_func"
    /\ outcome.override
    /\ \E k \in 2..Len(outcome.names) : endswith_(outcome.names[k])
    /\ ~endswith_(outcome.names[1])
    /\ outcome.raised = "Exception"
    /\ DOMAIN outcome.before # {}

(***************************************************************************)
(* C12.  In-place canonicalization.  Original statement: for every name n  *)
(* and every registry state resolve(n + "_") yields the same result, the   *)
(* same handler or absent, as resolve(n).  Amended: this holds for every   *)
(* name n that does not itself end with an underscore.                     *)
(***************************************************************************)
InPlaceCanonicalOriginal ==
    \A n \in LookupNames :
        get_func(name_to_func_mapping, Append(n, "_")) = get_func(name_to_func_mapping, n)

InPlaceCanonical ==
    \A n \in LookupNames :
        ~endswith_(n) =>
            get_func(name_to_func_mapping, Append(n, "_"))
                = get_func(name_to_func_mapping, n)

\* resolve of "a_" has returned the handler that is registered for "a"
InPlaceCanonicalWitness ==
    /\ outcome.call = "get_func"
    /\ outcome.names = << <<"a", "_">> >>
    /\ outcome.result # None
    /\ outcome.result = Some(name_to_func_mapping[<<"a">>])

(***************************************************************************)
(* C13.  Canonicalized containment.  Original statement: for every name    *)
(* and every registry state the containment query answers true exactly     *)
(* when resolve of the name returns a handler.  Amended: the containment   *)
(* query looks the name up as it is; it answers true exactly when resolve  *)
(* returns a handler for every name that does not end with an underscore,  *)
(* which are the only names the node gate lets through to it.              *)
(***************************************************************************)
ContainmentOriginal ==
    \A n \in LookupNames :
        contains(name_to_func_mapping, n) <=> get_func(name_to_func_mapping, n) # None

Containment ==
    /\ \A n \in LookupNames :
          ~endswith_(n) =>
              (contains(name_to_func_mapping, n)
                  <=> get_func(name_to_func_mapping, n) # None)
    /\ outcome.call = "is_torch_fx_node_supported" /\ outcome.raised = "None"
              /\ outcome.func[1].op = "call_function"
          => LET key == fx_node_target_name(outcome.func[1])
             IN  /\ ~endswith_(key)
                 /\ outcome.result[1] <=> get_func(name_to_func_mapping, key) # None

\* the gate has answered true for the node whose target is named aten.a
ContainmentWitness ==
    /\ outcome.call = "is_torch_fx_node_supported"
    /\ outcome.names = << <<"a", "t", "e", "n", ".", "a">> >>
    /\ outcome.result = Some(TRUE)

(***************************************************************************)
(* C14.  Dunder precedence and in-place detection: is_inplace_op of a name *)
(* is true exactly when the name ends with an underscore and is not        *)
(* wrapped in a double-underscore pair; those are exactly the names for    *)
(* which resolve looks up the name without its last character; for         *)
(* "__" + n + "__" resolve looks up n, so that for a registered n without  *)
(* underscores resolve("__" + n + "__") equals resolve(n).                 *)
(***************************************************************************)
Wrapped(n) ==
    /\ Len(n) >= 2
    /\ SubSeq(n, 1, 2) = <<"_", "_">>
    /\ SubSeq(n, Len(n) - 1, Len(n)) = <<"_", "_">>

StripsOne(n) == Len(n) >= 1 /\ sanitize(n) = SubSeq(n, 1, Len(n) - 1)

Dunder(n) == <<"_", "_">> \o n \o <<"_", "_">>

FailedRegistrationOriginal ==
    outcome.call = "register_func" /\ outcome.raised # "None"
        => name_to_func_mapping = outcome.before

\* the names of the call before position j
NamesBefore(j) == {outcome.names[i] : i \in 1..(j - 1)}

\* the name at position j makes the call fail when the loop comes to it
FailsAt(j) ==
    \/ outcome.names[j][Len(outcome.names[j])] = "_"
    \/ ~outcome.override
          /\ outcome.names[j] \in DOMAIN outcome.before \cup NamesBefore(j)

FailedRegistration ==
    outcome.call = "register_func" /\ outcome.raised # "None"
        => \E j \in 1..Len(outcome.names) :
              /\ FailsAt(j)
              /\ \A i \in 1..(j - 1) : ~FailsAt(i)
              /\ DOMAIN name_to_func_mapping = DOMAIN outcome.before \cup NamesBefore(j)
              /\ \A k \in DOMAIN name_to_func_mapping :
                    name_to_func_mapping[k] = IF k \in NamesBefore(j) THEN outcome.func[1]
                                              ELSE outcome.before[k]

\* a call has failed at an alias after it bound the handler's own name
FailedRegistrationWitness ==
    /\ outcome.call = "register_func"
    /\ outcome.raised # "None"
    /\ outcome.names[1] \notin DOMAIN outcome.before
    /\ outcome.names[1] \in DOMAIN name_to_func_mapping
    /\ name_to_func_mapping[outcome.names[1]] = outcome.func[1]

(***************************************************************************)
(* C16.  Change propagation.  Original statement: a scan of a block        *)
(* reports "no change" only if no rewrite was made during the scan in the  *)
(* block or in a block nested in it, so apply stops only after a pass in   *)
(* which no block changed.  Amended: a scan reports "change" exactly when  *)
(* it made a rewrite directly in its own block; rewrites in nested blocks  *)
(* are not reported to the caller, the nested blocks being scanned again   *)
(* within the parent's scan until they stop changing; when a scan reports  *)
(* "no change" no operation of its block at any depth is eligible.         *)
(***************************************************************************)
\* the scan on top of the stack has exhausted its snapshot and returns False
ScanEnding == pc = "scan" /\ Top.bi = 0 /\ Top.i > Len(Top.snap)

ChangePropagationOriginal == ScanEnding => rewrites[run] = Top.before

\* the operations of block b and of the blocks nested in it
WithinBlock(b) ==
    LET order == FlattenBlocks(ops, blocks, <<b>>)
    IN  {order[k] : k \in 1..Len(order)}

ChangePropagation ==
    /\ [](ScanEnding => \A o \in WithinBlock(Top.block) : ~Eligible(o))
    /\ [][pc = "scan" /\ Len(stack') < Len(stack) =>
            LET status == IF Len(stack) = 1 THEN block_changed'
                          ELSE stack'[Len(stack')].changed
            IN  status <=> blocks'[Top.block].operations # Top.snap]_vars

\* the scan of a function's block returns False although rewrites were made
\* in nested blocks while it ran
ChangePropagationWitness ==
    /\ ScanEnding
    /\ Len(stack) = 1
    /\ rewrites[run] > Top.before

(***************************************************************************)
(* C17.  Stale-snapshot discipline: a scan returns at once after a rewrite *)
(* it made in its own block, so it makes at most one; the snapshot of      *)
(* every scan in progress is the current operation list of its block, so   *)
(* the matcher and the strategies are applied only to an operation that is *)
(* still in its enclosing block, also after rewrites in nested blocks.     *)
(***************************************************************************)
StaleSnapshot ==
    /\ [](\A d \in 1..Len(stack) :
             /\ stack[d].snap = blocks[stack[d].block].operations
             /\ d = Len(stack) /\ Scanning
                   => /\ CurOp \in Present
                      /\ InList(CurOp, blocks[ops[CurOp].enclosing_block].operations)
                      /\ ops[CurOp].enclosing_block = Top.block)
    /\ [][rewrites' # rewrites =>
            /\ Len(stack') = Len(stack) - 1
            /\ rewrites'[run] = rewrites[run] + 1
            /\ blocks'[Top.block].operations = Without(Top.snap, {CurOp})]_vars

\* the scan of a function's block has come to an operation without blocks
\* after rewrites were made in nested blocks during this scan
StaleSnapshotWitness ==
    /\ Len(stack) = 1
    /\ Scanning
    /\ Top.i > 1
    /\ Len(ops[CurOp].blocks) = 0
    /\ rewrites[run] > Top.before

(***************************************************************************)
(* C18.  Either-operand identity.  Original statement: an add or mul that  *)
(* is not a block output and not exempt is removed by apply whenever one   *)
(* of its operands is a constant equal to the identity element and the     *)
(* other operand's type is the output's type; sub, floor_div, pow and      *)
(* real_div are removed only when the right operand is the identity.       *)
(* Amended: the left operand is tried first.  An add or mul is removed     *)
(* when its left operand is the identity and the right operand has the     *)
(* output's type, or when its left operand is not the identity, its right  *)
(* operand is, and the left operand has the output's type; it is kept when *)
(* the left operand is the identity and the right operand's type differs   *)
(* from the output's, even if the right operand is the identity too.       *)
(***************************************************************************)
HasOutType(op, v) == sym_type(ops, v) = sym_type(ops, Var(op, 1))

Candidate(o) ==
    /\ ops[o].op_type \in {"add", "mul"}
    /\ Len(outputs(ops, o)) = 1
    /\ ~IsBlockOutput(o)
    /\ o \notin ops_to_skip

RightOnly == {"sub", "floor_div", "pow", "real_div"}

EitherOperandOriginal ==
    /\ Returned =>
          \A o \in Present :
              Candidate(o) =>
                  /\ ~(IsIdentity(ops[o].op_type, "x", ops[o].inputs.x)
                          /\ HasOutType(o, ops[o].inputs.y))
                  /\ ~(IsIdentity(ops[o].op_type, "y", ops[o].inputs.y)
                          /\ HasOutType(o, ops[o].inputs.x))
    /\ \A o \in Present0 \ Present :
          ops[o].op_type \in RightOnly => IsIdentity(ops[o].op_type, "y", ops[o].inputs.y)

LeftFirst(o) ==
    IF IsIdentity(ops[o].op_type, "x", ops[o].inputs.x)
    THEN HasOutType(o, ops[o].inputs.y)
    ELSE IsIdentity(ops[o].op_type, "y", ops[o].inputs.y) /\ HasOutType(o, ops[o].inputs.x)

EitherOperand ==
    /\ Returned => \A o \in Present : Candidate(o) => ~LeftFirst(o)
    /\ \A o \in Present0 \ Present :
          /\ ops[o].op_type \in {"add", "mul"} => LeftFirst(o)
          /\ ops[o].op_type \in RightOnly =>
                /\ IsIdentity(ops[o].op_type, "y", ops[o].inputs.y)
                /\ HasOutType(o, ops[o].inputs.x)

\* apply has returned and removed an add whose operands are both zero
\* constants of which only the right one has the output's type
EitherOperandWitness ==
    /\ Returned
    /\ \E o \in Present0 \ Present :
          /\ ops[o].op_type = "add"
          /\ IsIdentity("add", "x", ops[o].inputs.x)
          /\ IsIdentity("add", "y", ops[o].inputs.y)
          /\ ~HasOutType(o, ops[o].inputs.x)
          /\ HasOutType(o, ops[o].inputs.y)

(***************************************************************************)
(* Registration by several callers at once.                                *)
(***************************************************************************)
\* callers t and u both register, without override, one and the same name,
\* which register_func accepts, on a registry that does not have it
Racing(t, u) ==
    /\ t # u
    /\ ~threads[t].override /\ ~threads[u].override
    /\ Len(threads[t].all) = 1
    /\ threads[u].all = threads[t].all
    /\ ~endswith_(threads[t].all[1])

Done(t) == threads[t].at \in {"returned", "raised"}

\* C19 as stated: of two calls without override that register the same new
\* name at the same time, exactly one returns and the other raises the
\* duplicate error.
SerializedOriginal ==
    \A t, u \in Threads :
        Racing(t, u) /\ Done(t) /\ Done(u)
        => \/ threads[t].at = "returned" /\ threads[u].raised = "ValueError"
           \/ threads[u].at = "returned" /\ threads[t].raised = "ValueError"

\* the call of t finished before the call of u made its test
FailsAfter(t, u) ==
    Racing(t, u) /\ threads[t].at = "returned" /\ threads[u].at = "check"
    /\ threads'[u] # threads[u]
    => threads'[u].at = "raised" /\ threads'[u].raised = "ValueError"

\* C19: register_func does not serialize its callers.  Of two calls without
\* override that register the same new name, the one that makes its test
\* after the other has returned raises the duplicate error; when both have
\* ended, at least one has returned, one that failed raised the duplicate
\* error, and the name is bound to the handler of a call that returned (of
\* either, when both returned).
Serialized ==
    /\ [](\A t, u \in Threads :
            Racing(t, u) /\ Done(t) /\ Done(u)
            => /\ threads[t].at = "returned" \/ threads[u].at = "returned"
               /\ threads[t].at = "raised" => threads[t].raised = "ValueError"
               /\ threads[t].all[1] \in DOMAIN name_to_func_mapping
               /\ \E w \in {t, u} :
                     /\ threads[w].at = "returned"
                     /\ name_to_func_mapping[threads[t].all[1]] = threads[w].func[1])
    /\ [][\A t, u \in Threads : FailsAfter(t, u)]_vars

\* both calls returned, and the handler of one has replaced the other's
SerializedWitness ==
    \E t, u \in Threads :
        /\ Racing(t, u)
        /\ threads[t].at = "returned" /\ threads[u].at = "returned"
        /\ threads[t].func # threads[u].func
        /\ name_to_func_mapping[threads[t].all[1]] = threads[u].func[1]

(***************************************************************************)
(* Operations the scan leaves alone.                                       *)
(***************************************************************************)
\* the matcher rejects op, op is exempt, or the strategy selected for op
\* returns false
Declines(op) ==
    IF _match_pattern(op) = "None" \/ op \in ops_to_skip THEN TRUE
    ELSE ~call_remove_fn(_match_pattern(op), op, Top.block).status

\* C20: when the matcher rejects the operation the scan is at, the
\* operation is exempt, or its strategy declines, the step leaves every
\* operation (with its inputs, hence every value's uses), every block's
\* operation list and declared outputs and the function list as they were,
\* and the same activation goes on with the next operation of its snapshot.
DeclinedNoEffect ==
    [][Scanning /\ Len(ops[CurOp].blocks) = 0 /\ Declines(CurOp)
       => /\ ops' = ops
          /\ blocks' = blocks
          /\ functions' = functions
          /\ pc' = "scan"
          /\ Len(stack') = Len(stack)
          /\ SubSeq(stack', 1, Len(stack) - 1) = SubSeq(stack, 1, Len(stack) - 1)
          /\ Top'.block = Top.block
          /\ Top'.snap = Top.snap
          /\ Top'.i = Top.i + 1]_vars

\* a strategy has declined an operation the matcher selected, and the scan
\* stands at the operation that follows it in the snapshot
DeclinedNoEffectWitness ==
    /\ last.kind = "declined"
    /\ _match_pattern(last.op) # "None"
    /\ Scanning
    /\ Top.i > 1
    /\ Top.snap[Top.i - 1] = last.op

====
